---------------------------- MODULE Spec2Model ----------------------------
(***************************************************************************)
(* Model of mysymptoms.py: the diary import (MySymptomsCSV.import_file),   *)
(* the consumable tracker, the symptom correlation and the report          *)
(* (calculate_safest_consumables, save_to_file).                           *)
(*                                                                         *)
(* Text.  A csv cell is a sequence of text chunks.  A chunk stands for a   *)
(* fixed piece of text without spaces, quotes or brackets ("Tea",          *)
(* "Duration", "Intensity:", "6", "03/30/2022", "18:57") or for one of the *)
(* single characters " ", "\"" and "[".  The string functions of the       *)
(* source act on these sequences as they act on the text.                  *)
(*                                                                         *)
(* Time.  An instant is a number of minutes; a timedelta is a number of    *)
(* minutes.                                                                *)
(*                                                                         *)
(* Scores.  A score rounded to 2 decimals is kept as the integer number of *)
(* hundredths.                                                             *)
(***************************************************************************)
EXTENDS Integers, Sequences, FiniteSets, TLC

\* mysymptoms.py:10-12
DATE_COLUMN == 0
TIME_COLUMN == 1
CATEGORIZATION_COLUMN == 2

\* Bound of the model: the number of data rows of the input file.
MaxRows == 3

---------------------------------------------------------------------------
\* Text functions

RECURSIVE lstrip(_)
lstrip(s) ==
    IF s # <<>> /\ Head(s) = " " THEN lstrip(Tail(s)) ELSE s

RECURSIVE rstrip(_)
rstrip(s) ==
    IF s # <<>> /\ s[Len(s)] = " " THEN rstrip(SubSeq(s, 1, Len(s) - 1)) ELSE s

\* str.strip(" "): only spaces, only at the two ends
strip(s) == rstrip(lstrip(s))

\* str.replace('"', ""): every quote character, wherever it is
remove_quotes(s) == SelectSeq(s, LAMBDA ch : ch # "\"")

\* clean_data: strip first, then remove the quotes
clean_data(data) == remove_quotes(strip(data))

\* ignore_item: item.startswith("[")
ignore_item(item) == item # <<>> /\ item[1] = "["

\* symptom_name.startswith("Duration")
startswith_Duration(name) == name # <<>> /\ name[1] = "Duration"

\* The literal " Intensity: "
IntensityPrefix == <<" ", "Intensity:", " ">>

\* str.replace(" Intensity: ", ""): every occurrence, left to right
RECURSIVE replace_intensity(_)
replace_intensity(s) ==
    IF s = <<>> THEN <<>>
    ELSE IF Len(s) >= Len(IntensityPrefix)
            /\ SubSeq(s, 1, Len(IntensityPrefix)) = IntensityPrefix
         THEN replace_intensity(SubSeq(s, Len(IntensityPrefix) + 1, Len(s)))
         ELSE <<Head(s)>> \o replace_intensity(Tail(s))

Digits == {"0", "1", "2", "3", "4", "5", "6", "7", "8", "9"}

DigitValue(d) ==
    CASE d = "0" -> 0 [] d = "1" -> 1 [] d = "2" -> 2 [] d = "3" -> 3
      [] d = "4" -> 4 [] d = "5" -> 5 [] d = "6" -> 6 [] d = "7" -> 7
      [] d = "8" -> 8 [] d = "9" -> 9

\* int(text) raises ValueError unless the text, surrounding spaces apart,
\* is a non-empty run of digits (no chunk of the model is a sign)
int_ok(text) ==
    LET t == strip(text)
    IN  t # <<>> /\ \A i \in 1..Len(t) : t[i] \in Digits

RECURSIVE digits_value(_)
digits_value(t) ==
    IF t = <<>> THEN 0
    ELSE 10 * digits_value(SubSeq(t, 1, Len(t) - 1)) + DigitValue(t[Len(t)])

int(text) == digits_value(strip(text))

\* The dates and times of day that datetime.strptime(.., "%m/%d/%Y %H:%M")
\* accepts, among the chunks of the model: day number and minute of the day.
DateChunks == {"03/30/2022", "03/31/2022"}
TimeChunks == {"08:00", "09:30", "12:00"}

DayOf(d) == CASE d = "03/30/2022" -> 0 [] d = "03/31/2022" -> 1

MinuteOf(t) ==
    CASE t = "08:00" -> 8 * 60 [] t = "09:30" -> 9 * 60 + 30
      [] t = "12:00" -> 12 * 60

\* convert_to_date_time: the format wants the date, white space, the time.
\* clean_data is applied to the concatenation date + time.
datetime_string(date, time) == clean_data(date \o time)

strptime_ok(s) ==
    /\ Len(s) >= 3
    /\ s[1] \in DateChunks
    /\ s[Len(s)] \in TimeChunks
    /\ \A i \in 2..(Len(s) - 1) : s[i] = " "

strptime(s) == DayOf(s[1]) * 24 * 60 + MinuteOf(s[Len(s)])

timedelta_hours(h) == h * 60

---------------------------------------------------------------------------
\* The input: configurations and diary rows

Dinner   == <<"Dinner">>
Exercise == <<"Exercise">>
Symptom  == <<"Symptom">>
Tea      == <<"Tea">>
tea      == <<"tea">>
Headache == <<"Headache">>
Nausea   == <<"Nausea">>

\* config.json / command line, after Config.__init__
Configs ==
    { [ consumables           |-> <<Dinner>>,
        symptoms              |-> <<>>,
        min_times_consumed    |-> 1,
        symptom_warning_score |-> 5,
        symptom_onset_hours   |-> timedelta_hours(4) ],
      [ consumables           |-> <<Dinner>>,
        symptoms              |-> <<Headache>>,
        min_times_consumed    |-> 2,
        symptom_warning_score |-> 2,
        symptom_onset_hours   |-> timedelta_hours(4) ],
      [ consumables           |-> <<Dinner, Symptom>>,
        symptoms              |-> <<>>,
        min_times_consumed    |-> 2,
        symptom_warning_score |-> 5,
        symptom_onset_hours   |-> timedelta_hours(4) ],
      [ consumables           |-> <<Dinner, Symptom>>,
        symptoms              |-> <<Headache>>,
        min_times_consumed    |-> 1,
        symptom_warning_score |-> 2,
        symptom_onset_hours   |-> timedelta_hours(4) ] }

\* Date and time cells as the csv reader delivers them ("03/30/2022, 08:00").
\* Meals are logged at 08:00 and 09:30, symptoms at 08:00 and 12:00, so a
\* symptom lies 90 minutes before, 0 minutes, 150 minutes or exactly 4 hours
\* after a meal.
DateCell == <<"03/30/2022">>
At0800 == <<" ", "08:00">>
At0930 == <<" ", "09:30">>
At1200 == <<" ", "12:00">>

Intensity(d) == <<" ", "Intensity:", " ", d>>

ConsumptionRest ==
    { <<Tea>>,
      << <<" ", "\"", "Tea", "\"">>, <<" ", "[", "2", "cups">> >>,
      <<Tea, Tea>>,
      <<tea>> }

SymptomRest ==
    { <<Headache, Intensity("6")>>,
      << <<" ", "Headache">>, Intensity("6"), <<" ", "Nausea">>, Intensity("0")>>,
      << <<"Duration", "2h">>, <<"x">>, Nausea, Intensity("3")>>,
      <<Headache>>,
      <<Nausea, Intensity("3"), <<"Duration", "2h">> >>,
      <<Nausea, <<"3">>, Headache, <<" ", "Intensity:", " ", "high">> >> }

\* Well-stamped rows: date, time, category, the rest
StampedRows ==
    { <<DateCell, t, Dinner>> \o rest :
        t \in {At0800, At0930}, rest \in ConsumptionRest }
    \cup
    { <<DateCell, t, <<" ", "Symptom">> >> \o rest :
        t \in {At0800, At1200}, rest \in SymptomRest }
    \cup
    { <<DateCell, At0930, Exercise, <<"Run">> >> }

\* Rows that are too short or carry a timestamp strptime rejects
BrokenRows ==
    { <<>>,
      <<DateCell, At0800>>,
      <<DateCell, <<"08:00">>, Dinner, Tea>>,
      <<DateCell, <<" ", "8am">>, Symptom, Headache, Intensity("6")>> }

Rows == StampedRows \cup BrokenRows

\* The first row of the file, which import_file skips
HeaderRow == << <<"Date">>, <<"Time">>, <<"Category">> >>

---------------------------------------------------------------------------
\* Classes

\* Symptom.__init__: a Symptom object has a name and its identity.  Objects
\* are compared by identity (the class defines no __eq__); id tells apart two
\* objects of the same name.
SymptomObj(name, id) == [name |-> name, id |-> id]

\* self.symptoms[symptom_name] = symptom
register(syms, name, symptom) ==
    [n \in DOMAIN syms \cup {name} |-> IF n = name THEN symptom ELSE syms[n]]

\* A Symptom object created for every occurrence, the registry not asked
lookup_symptom_fresh(syms, name) ==
    SymptomObj(name, Cardinality(DOMAIN syms) + 1)

\* Lines 139-143: the Symptom object of the name, created and registered
\* when the registry has none; a new object is the next one ever created
lookup_symptom(syms, name) ==
    IF name \in DOMAIN syms
    THEN syms[name]
    ELSE SymptomObj(name, Cardinality(DOMAIN syms) + 1)

\* SymptomOccurence.__init__
SymptomOccurence(symptom, date, intensity) ==
    [symptom |-> symptom, date |-> date, intensity |-> intensity]

\* Consumable.__init__
Consumable(name, last_consumed) ==
    [ name                |-> name,
      last_consumed       |-> last_consumed,
      times_consumed      |-> 1,
      symptom_occurrences |-> <<>>,
      associated_symptoms |-> {} ]

\* update_last_consumed without the increment of times_consumed
update_last_consumed_uncounted(c, date) ==
    [c EXCEPT !.last_consumed = date]

\* update_last_consumed keeping the instant of the first consumption
update_last_consumed_stale(c, date) ==
    [c EXCEPT !.times_consumed = @ + 1]

\* update_last_consumed dropping the occurrences recorded so far
update_last_consumed_reset(c, date) ==
    [c EXCEPT !.last_consumed = date, !.times_consumed = @ + 1,
              !.symptom_occurrences = <<>>, !.associated_symptoms = {}]

\* Consumable.update_last_consumed
update_last_consumed(c, date) ==
    [c EXCEPT !.last_consumed = date, !.times_consumed = @ + 1]

\* Consumable.add_symptom_occurence
add_symptom_occurence(c, occurence) ==
    [c EXCEPT !.associated_symptoms = @ \cup {occurence.symptom},
              !.symptom_occurrences = Append(@, occurence)]

\* membership in a python list
InList(x, list) == \E i \in 1..Len(list) : list[i] = x

\* A dict that never finds a key
IndexOf_missing(cons, name) == 0

\* self.consumables is a dict: a sequence in insertion order, one entry per
\* name.  IndexOf is the position of the key (0: no such key).
IndexOf(cons, name) ==
    IF \E k \in 1..Len(cons) : cons[k].name = name
    THEN CHOOSE k \in 1..Len(cons) : cons[k].name = name
    ELSE 0

---------------------------------------------------------------------------
\* MySymptomsCSV

VARIABLES
    config,        \* the Config object
    consumables,   \* csv_data.consumables, in insertion order
    symptoms,      \* csv_data.symptoms: name -> Symptom object
    pc,            \* "import_file", "save_to_file", "exit" or "error"
    error,         \* the exception that ended the run, or "none"
    rows_read,     \* number of data rows taken from the file reader
    current_row,   \* the row taken last (the header before the first one)
    safe_foods,    \* the report, once calculated
    printed,       \* the warnings printed: <<consumable, symptom, score>>
    written,       \* what save_to_file has written, <<>> before
    item_fields,   \* history: per cleaned name, the item fields counted
    consumed_at,   \* history: per cleaned name, the instants it was consumed
    prev_at,       \* history: instant of the latest row with a timestamp
    chronological  \* history: no row so far was earlier than its predecessor

vars == << config, consumables, symptoms, pc, error, rows_read, current_row,
           safe_foods, printed, written, item_fields, consumed_at, prev_at,
           chronological >>

\* _update_consumables, the loop from column i (1-based) on
RECURSIVE update_consumables_from(_, _, _, _)
update_consumables_from(cons, row, at, i) ==
    IF i > Len(row) THEN cons
    ELSE LET item == clean_data(row[i])
             k    == IndexOf(cons, item)
         IN  IF ignore_item(item)
             THEN update_consumables_from(cons, row, at, i + 1)
             ELSE IF k # 0
             THEN update_consumables_from(
                      [cons EXCEPT ![k] = update_last_consumed(@, at)],
                      row, at, i + 1)
             ELSE update_consumables_from(
                      Append(cons, Consumable(item, at)), row, at, i + 1)

\* _update_consumables counting a name once for the row, however often the
\* row lists it
RECURSIVE update_consumables_once_from(_, _, _, _)
update_consumables_once_from(cons, row, at, i) ==
    IF i > Len(row) THEN cons
    ELSE LET item == clean_data(row[i])
             k    == IndexOf(cons, item)
         IN  IF ignore_item(item)
                \/ \E j \in (CATEGORIZATION_COLUMN + 2)..(i - 1) :
                       clean_data(row[j]) = item
             THEN update_consumables_once_from(cons, row, at, i + 1)
             ELSE IF k # 0
             THEN update_consumables_once_from(
                      [cons EXCEPT ![k] = update_last_consumed(@, at)],
                      row, at, i + 1)
             ELSE update_consumables_once_from(
                      Append(cons, Consumable(item, at)), row, at, i + 1)

update_consumables_once(cons, row, at) ==
    update_consumables_once_from(cons, row, at, CATEGORIZATION_COLUMN + 2)

\* _update_consumables
update_consumables(cons, row, at) ==
    update_consumables_from(cons, row, at, CATEGORIZATION_COLUMN + 2)

\* The filter without the test of the allow-list
skip_symptom_duration_only(include_symptoms, symptom_name) ==
    startswith_Duration(symptom_name)

\* The filter of line 134: Duration values and symptoms not asked for
skip_symptom(include_symptoms, symptom_name) ==
    \/ startswith_Duration(symptom_name)
    \/ (include_symptoms # <<>> /\ ~InList(symptom_name, include_symptoms))

\* _update_symptoms, the inner loop for consumable k from column i (1-based)
\* on; st = [consumables, symptoms, error]
RECURSIVE update_symptoms_pairs(_, _, _, _, _, _)
update_symptoms_pairs(st, include_symptoms, k, row, at, i) ==
    IF st.error # "none" \/ i > Len(row) THEN st
    ELSE LET symptom_name == clean_data(row[i])
         IN  IF skip_symptom(include_symptoms, symptom_name)
             THEN update_symptoms_pairs(st, include_symptoms, k, row, at, i + 2)
             ELSE IF i + 1 > Len(row)
             THEN [st EXCEPT !.error = "IndexError"]
             ELSE IF ~int_ok(replace_intensity(row[i + 1]))
             THEN [st EXCEPT !.error = "ValueError"]
             ELSE LET symptom_intensity == int(replace_intensity(row[i + 1]))
                      symptom == lookup_symptom(st.symptoms, symptom_name)
                      occurence == SymptomOccurence(symptom, at,
                                                    symptom_intensity)
                  IN  update_symptoms_pairs(
                          [st EXCEPT
                             !.symptoms = register(@, symptom_name, symptom),
                             !.consumables[k] = add_symptom_occurence(@, occurence)],
                          include_symptoms, k, row, at, i + 2)

\* The window with its end included
in_onset_window_inclusive(at, last_consumed, symptom_onset_hours) ==
    at - last_consumed <= symptom_onset_hours

\* line 126: the consumable is inside the onset window
in_onset_window(at, last_consumed, symptom_onset_hours) ==
    at - last_consumed < symptom_onset_hours

\* The outer loop leaving after the first consumable inside the window
RECURSIVE update_symptoms_first_only(_, _, _, _, _)
update_symptoms_first_only(st, cfg, row, at, k) ==
    IF st.error # "none" \/ k > Len(st.consumables) THEN st
    ELSE IF ~in_onset_window(at, st.consumables[k].last_consumed,
                             cfg.symptom_onset_hours)
    THEN update_symptoms_first_only(st, cfg, row, at, k + 1)
    ELSE update_symptoms_pairs(st, cfg.symptoms, k, row, at,
                               CATEGORIZATION_COLUMN + 2)

\* _update_symptoms, the outer loop from consumable k on
RECURSIVE update_symptoms_from(_, _, _, _, _)
update_symptoms_from(st, cfg, row, at, k) ==
    IF st.error # "none" \/ k > Len(st.consumables) THEN st
    ELSE IF ~in_onset_window(at, st.consumables[k].last_consumed,
                             cfg.symptom_onset_hours)
    THEN update_symptoms_from(st, cfg, row, at, k + 1)
    ELSE update_symptoms_from(
             update_symptoms_pairs(st, cfg.symptoms, k, row, at,
                                   CATEGORIZATION_COLUMN + 2),
             cfg, row, at, k + 1)

\* _update_symptoms
update_symptoms(st, cfg, row, at) == update_symptoms_from(st, cfg, row, at, 1)

\* Line 95 and line 98: the two tests of import_file on the cleaned category
is_consumable_category(cfg, category) == InList(category, cfg.consumables)

is_symptom_category(cfg, category) == category = Symptom

\* The body of the loop of import_file for one row
import_row(cfg, cons, syms, row) ==
    LET failed(e) == [consumables |-> cons, symptoms |-> syms, error |-> e]
    IN  IF Len(row) <= TIME_COLUMN THEN failed("IndexError")
        ELSE IF ~strptime_ok(datetime_string(row[DATE_COLUMN + 1],
                                             row[TIME_COLUMN + 1]))
        THEN failed("ValueError")
        ELSE IF Len(row) <= CATEGORIZATION_COLUMN THEN failed("IndexError")
        ELSE LET at == strptime(datetime_string(row[DATE_COLUMN + 1],
                                                row[TIME_COLUMN + 1]))
                 category == clean_data(row[CATEGORIZATION_COLUMN + 1])
                 cons1 == IF is_consumable_category(cfg, category)
                          THEN update_consumables(cons, row, at)
                          ELSE cons
                 st1 == [consumables |-> cons1, symptoms |-> syms,
                         error |-> "none"]
             IN  IF is_symptom_category(cfg, category)
                 THEN update_symptoms(st1, cfg, row, at)
                 ELSE st1

---------------------------------------------------------------------------
\* Scores and report

\* round(num / den, 2) in hundredths, for num >= 0 and den >= 1.  Python
\* rounds the double nearest to num / den; a tie between two hundredths
\* needs 200 * num = (2q + 1) * den, so den a multiple of 8, and then
\* num / den is a double and the tie goes to the even hundredth.
round2(num, den) ==
    LET q == (100 * num) \div den
        r == (100 * num) % den
    IN  IF 2 * r < den THEN q
        ELSE IF 2 * r > den THEN q + 1
        ELSE IF q % 2 = 0 THEN q ELSE q + 1

\* sum([o.intensity for o in occurrences])
RECURSIVE sum_intensity(_)
sum_intensity(occurrences) ==
    IF occurrences = <<>> THEN 0
    ELSE Head(occurrences).intensity + sum_intensity(Tail(occurrences))

\* The score as an average over the occurrences, not over the consumptions
total_danger_score_per_occurrence(c) ==
    LET total_symptom_intensity == sum_intensity(c.symptom_occurrences)
    IN  IF total_symptom_intensity # 0
        THEN round2(total_symptom_intensity, Len(c.symptom_occurrences))
        ELSE 0

\* Consumable.total_danger_score
total_danger_score(c) ==
    LET total_symptom_intensity == sum_intensity(c.symptom_occurrences)
    IN  IF total_symptom_intensity # 0
        THEN round2(total_symptom_intensity, c.times_consumed)
        ELSE 0

\* The average taken over the occurrences of all symptoms
average_symptom_score_all(c, symptom) ==
    LET symptom_score == sum_intensity(c.symptom_occurrences)
    IN  IF symptom_score # 0
        THEN round2(symptom_score, c.times_consumed)
        ELSE 0

\* Lines 220-224: the average of one symptom
average_symptom_score(c, symptom) ==
    LET symptom_score ==
            sum_intensity(SelectSeq(c.symptom_occurrences,
                                    LAMBDA o : o.symptom = symptom))
    IN  IF symptom_score # 0
        THEN round2(symptom_score, c.times_consumed)
        ELSE 0

\* Line 226 with >= for >
warns_at_threshold(average, warning_threshold) ==
    average >= 100 * warning_threshold

\* Line 226: the test that prints a warning
warns(average, warning_threshold) == average > 100 * warning_threshold

\* Consumable.average_symptom_intensities: the dict returned
average_symptom_intensities(c, warning_threshold) ==
    [ name \in { symptom.name : symptom \in c.associated_symptoms } |->
        average_symptom_score(
            c, CHOOSE symptom \in c.associated_symptoms : symptom.name = name) ]

\* Consumable.average_symptom_intensities: the warnings printed
symptom_warnings(c, warning_threshold) ==
    { <<c.name, symptom.name, average_symptom_score(c, symptom)>> :
        symptom \in { s \in c.associated_symptoms :
                        warns(average_symptom_score(c, s), warning_threshold) } }

\* Line 239 with <= for <
enough_times_strict(c, min_times_consumed) ==
    ~(c.times_consumed <= min_times_consumed)

\* Line 239: the consumable is analysed
enough_times(c, min_times_consumed) ==
    ~(c.times_consumed < min_times_consumed)

\* Line 241
report_entry(c, warning_threshold) ==
    [ item         |-> c.name,
      danger_score |-> total_danger_score(c),
      symptoms     |-> average_symptom_intensities(c, warning_threshold) ]

\* Lines 236-242: the entries, in the order of the tracker
RECURSIVE symptom_scores(_, _, _)
symptom_scores(cons, min_times_consumed, warning_threshold) ==
    IF cons = <<>> THEN <<>>
    ELSE IF enough_times(Head(cons), min_times_consumed)
    THEN <<report_entry(Head(cons), warning_threshold)>>
         \o symptom_scores(Tail(cons), min_times_consumed, warning_threshold)
    ELSE symptom_scores(Tail(cons), min_times_consumed, warning_threshold)

\* A sort that puts an entry in front of the entries equal to it
sort_precedes_strictly(a, b) == a.danger_score < b.danger_score

\* sorted(..) is stable: an entry goes behind the entries not greater than it
sort_precedes(a, b) == a.danger_score <= b.danger_score

RECURSIVE insert_sorted(_, _)
insert_sorted(sorted, e) ==
    IF sorted = <<>> THEN <<e>>
    ELSE IF sort_precedes(sorted[Len(sorted)], e) THEN Append(sorted, e)
    ELSE Append(insert_sorted(SubSeq(sorted, 1, Len(sorted) - 1), e),
                sorted[Len(sorted)])

RECURSIVE sorted_from(_, _)
sorted_from(done, rest) ==
    IF rest = <<>> THEN done
    ELSE sorted_from(insert_sorted(done, Head(rest)), Tail(rest))

\* Line 245
sorted_by_danger(entries) == sorted_from(<<>>, entries)

\* calculate_safest_consumables
calculate_safest_consumables(cons, min_times_consumed, warning_threshold) ==
    sorted_by_danger(symptom_scores(cons, min_times_consumed, warning_threshold))

\* The warnings printed by calculate_safest_consumables
calculate_warnings(cons, min_times_consumed, warning_threshold) ==
    UNION { symptom_warnings(cons[k], warning_threshold) :
              k \in { j \in 1..Len(cons) :
                        enough_times(cons[j], min_times_consumed) } }

---------------------------------------------------------------------------
\* History variables

\* The row has a timestamp and a category
row_parses(row) ==
    /\ Len(row) > CATEGORIZATION_COLUMN
    /\ strptime_ok(datetime_string(row[DATE_COLUMN + 1], row[TIME_COLUMN + 1]))

row_has_timestamp(row) ==
    /\ Len(row) > TIME_COLUMN
    /\ strptime_ok(datetime_string(row[DATE_COLUMN + 1], row[TIME_COLUMN + 1]))

row_at(row) == strptime(datetime_string(row[DATE_COLUMN + 1], row[TIME_COLUMN + 1]))

row_category(row) == clean_data(row[CATEGORIZATION_COLUMN + 1])

handled_as_consumption(cfg, row) ==
    row_parses(row) /\ is_consumable_category(cfg, row_category(row))

handled_as_symptom(cfg, row) ==
    row_parses(row) /\ is_symptom_category(cfg, row_category(row))

\* The columns behind the category column
RestColumns(row) == (CATEGORIZATION_COLUMN + 2)..Len(row)

\* The cleaned text begins with '['
Bracketed(text) == Len(text) > 0 /\ Head(text) = "["

\* The item fields of a row whose cleaned text is name, brackets not counted
ItemFields(row, name) ==
    { i \in RestColumns(row) :
        clean_data(row[i]) = name /\ ~Bracketed(clean_data(row[i])) }

ItemNames(row) ==
    { clean_data(row[i]) :
        i \in { j \in RestColumns(row) : ~Bracketed(clean_data(row[j])) } }

CountItemFields(counts, row) ==
    [ name \in DOMAIN counts \cup ItemNames(row) |->
        (IF name \in DOMAIN counts THEN counts[name] ELSE 0)
        + Cardinality(ItemFields(row, name)) ]

\* The instants of the Consumption rows that listed each name
RecordConsumedAt(instants, row) ==
    [ name \in DOMAIN instants \cup ItemNames(row) |->
        (IF name \in DOMAIN instants THEN instants[name] ELSE {})
        \cup (IF name \in ItemNames(row) THEN {row_at(row)} ELSE {}) ]

---------------------------------------------------------------------------
\* The run

Init ==
    /\ config \in Configs
    /\ consumables = <<>>
    /\ symptoms = <<>>
    /\ pc = "import_file"
    /\ error = "none"
    /\ rows_read = 0
    /\ current_row = HeaderRow
    /\ safe_foods = <<>>
    /\ printed = {}
    /\ written = <<>>
    /\ item_fields = <<>>
    /\ consumed_at = <<>>
    /\ prev_at = -1
    /\ chronological = TRUE

\* An exception leaves the loop, import_file and the program
after_row_swallowed(e) == "import_file"

after_row(e) == IF e = "none" THEN "import_file" ELSE "error"

\* import_file: one turn of the loop over the rows of the file
ImportRow(row) ==
    /\ pc = "import_file"
    /\ rows_read < MaxRows
    /\ \E st \in {import_row(config, consumables, symptoms, row)} :
           /\ consumables' = st.consumables
           /\ symptoms' = st.symptoms
           /\ error' = st.error
           /\ pc' = after_row(st.error)
    /\ rows_read' = rows_read + 1
    /\ current_row' = row
    /\ item_fields' = IF handled_as_consumption(config, row)
                      THEN CountItemFields(item_fields, row)
                      ELSE item_fields
    /\ consumed_at' = IF handled_as_consumption(config, row)
                      THEN RecordConsumedAt(consumed_at, row)
                      ELSE consumed_at
    /\ prev_at' = IF row_has_timestamp(row) THEN row_at(row) ELSE prev_at
    /\ chronological' = (chronological /\
                           (row_has_timestamp(row) => row_at(row) >= prev_at))
    /\ UNCHANGED << config, safe_foods, printed, written >>

\* __main__, line 257: the file is read to its end, the report is calculated
CalculateSafestConsumables ==
    /\ pc = "import_file"
    /\ safe_foods' = calculate_safest_consumables(
                         consumables, config.min_times_consumed,
                         config.symptom_warning_score)
    /\ printed' = calculate_warnings(
                      consumables, config.min_times_consumed,
                      config.symptom_warning_score)
    /\ pc' = "save_to_file"
    /\ UNCHANGED << config, consumables, symptoms, error, rows_read,
                    current_row, written, item_fields, consumed_at, prev_at,
                    chronological >>

\* __main__, line 258
SaveToFile ==
    /\ pc = "save_to_file"
    /\ written' = <<safe_foods>>
    /\ pc' = "exit"
    /\ UNCHANGED << config, consumables, symptoms, error, rows_read,
                    current_row, safe_foods, printed, item_fields, consumed_at,
                    prev_at, chronological >>

Next ==
    \/ \E row \in Rows : ImportRow(row)
    \/ CalculateSafestConsumables
    \/ SaveToFile

Spec == Init /\ [][Next]_vars

---------------------------------------------------------------------------
\* Properties

\* Number of occurrences consumable k had before the step (0: it is new)
OldOccurrenceCount(k) ==
    IF k <= Len(consumables)
    THEN Len(consumables[k].symptom_occurrences)
    ELSE 0

\* The occurrences the step attached to consumable k of the new tracker
NewOccurrences(k) ==
    SubSeq(consumables'[k].symptom_occurrences,
           OldOccurrenceCount(k) + 1,
           Len(consumables'[k].symptom_occurrences))

\* The step attached, to consumable k, an occurrence whose distance from the
\* consumable's last_consumed satisfies P
AttachedOnlyIf(P(_)) ==
    \A k \in 1..Len(consumables') :
        \A i \in 1..Len(NewOccurrences(k)) :
            P(NewOccurrences(k)[i].date - consumables'[k].last_consumed)

\* C1: in every run, whatever the order of the rows, an occurrence
\* is attached to a consumable only if 0 <= T - L < onset_window.
C1_AttachOnlyInsideWindow ==
    [][AttachedOnlyIf(LAMBDA d : 0 <= d /\ d < config.symptom_onset_hours)]_vars

\* What the code guarantees instead: an occurrence is attached only if
\* T - L < onset_window, and 0 <= T - L holds too as long as the rows
\* processed so far are in chronological order.
AttachOnlyBeforeWindowEnd ==
    [][AttachedOnlyIf(LAMBDA d : /\ d < config.symptom_onset_hours
                                 /\ chronological' => 0 <= d)]_vars

\* Rows in chronological order, one consumable 150 minutes before the
\* symptom has its occurrence, another one exactly 4 hours before it has none.
AttachOnlyBeforeWindowEnd_Witness ==
    /\ chronological
    /\ \E k, j \in 1..Len(consumables) :
        /\ consumables[k].symptom_occurrences # <<>>
        /\ consumables[k].symptom_occurrences[1].date
             - consumables[k].last_consumed = 150
        /\ consumables[j].symptom_occurrences = <<>>
        /\ consumables[k].symptom_occurrences[1].date
             - consumables[j].last_consumed = config.symptom_onset_hours

\* C2: every tracked consumable has times_consumed >= 1, times_consumed is
\* the number of non-bracketed item fields with its name in the Consumption
\* rows processed, and a name is tracked exactly if that number is >= 1.
C2_TimesConsumedCountsItemFields ==
    /\ \A k \in 1..Len(consumables) :
        /\ consumables[k].times_consumed >= 1
        /\ consumables[k].name \in DOMAIN item_fields
        /\ consumables[k].times_consumed = item_fields[consumables[k].name]
        /\ \A j \in 1..Len(consumables) :
               consumables[j].name = consumables[k].name => j = k
    /\ \A name \in DOMAIN item_fields :
        (item_fields[name] >= 1) <=>
            (\E k \in 1..Len(consumables) : consumables[k].name = name)

\* C2 witness: Tea was listed three times, in rows that also held a quoted
\* cell or a bracketed cell
C2_Witness ==
    \E k \in 1..Len(consumables) :
        /\ consumables[k].name = Tea
        /\ consumables[k].times_consumed = 3

\* The step is a turn of the loop of import_file, on the row current_row'
RowStep == pc = "import_file" /\ rows_read' = rows_read + 1

\* The (name, intensity) pairs of a Symptom row that survive the filter, in
\* row order, as the occurrences of instant at.  Pair p sits in the columns
\* 2p - 1 and 2p behind the category column.
PairColumn(p) == CATEGORIZATION_COLUMN + 2 * p

Survives(cfg, name) ==
    /\ ~(Len(name) > 0 /\ Head(name) = "Duration")
    /\ (Len(cfg.symptoms) > 0 =>
            \E n \in 1..Len(cfg.symptoms) : cfg.symptoms[n] = name)

SurvivingPairs(cfg, row) ==
    SelectSeq([p \in 1..((Len(row) - CATEGORIZATION_COLUMN) \div 2) |-> p],
              LAMBDA p : Survives(cfg, clean_data(row[PairColumn(p)])))

SurvivingOccurrences(cfg, row) ==
    [ n \in 1..Len(SurvivingPairs(cfg, row)) |->
        [ symptom   |-> symptoms'[clean_data(
                            row[PairColumn(SurvivingPairs(cfg, row)[n])])],
          date      |-> row_at(row),
          intensity |-> int(replace_intensity(
                            row[PairColumn(SurvivingPairs(cfg, row)[n]) + 1])) ] ]

\* C3: a Symptom row at T that is processed without an error appends, to
\* every tracked consumable with T - last_consumed < onset_window, one
\* occurrence (symptom, T, intensity) per surviving pair, in row order, and
\* appends nothing to the other consumables.
C3_EveryConsumableInWindowGetsEveryPair ==
    [][(RowStep /\ handled_as_symptom(config, current_row')
                 /\ pc' = "import_file") =>
          \A k \in 1..Len(consumables') :
              NewOccurrences(k) =
                  IF row_at(current_row') - consumables'[k].last_consumed
                       < config.symptom_onset_hours
                  THEN SurvivingOccurrences(config, current_row')
                  ELSE <<>>]_vars

\* C3 witness: two consumables hold the same two occurrences of one row
C3_Witness ==
    \E k, j \in 1..Len(consumables) :
        /\ k # j
        /\ Len(consumables[k].symptom_occurrences) = 2
        /\ consumables[k].symptom_occurrences[1].symptom.name = Headache
        /\ consumables[k].symptom_occurrences[2].symptom.name = Nausea
        /\ consumables[j].symptom_occurrences = consumables[k].symptom_occurrences

\* The report has been calculated
Reported == pc \in {"save_to_file", "exit"}

\* C4: the report has one entry for exactly the consumables with
\* times_consumed >= min_times_consumed and is ordered by danger_score.
C4_ReportListsFrequentConsumablesInOrder ==
    Reported =>
        /\ \A k \in 1..Len(consumables) :
              Cardinality({ n \in 1..Len(safe_foods) :
                              safe_foods[n].item = consumables[k].name })
                = IF consumables[k].times_consumed >= config.min_times_consumed
                  THEN 1 ELSE 0
        /\ \A n \in 1..Len(safe_foods) :
              \E k \in 1..Len(consumables) :
                  safe_foods[n].item = consumables[k].name
        /\ \A n \in 1..(Len(safe_foods) - 1) :
              safe_foods[n].danger_score <= safe_foods[n + 1].danger_score

\* C4 witness: of two consumables reported, the one tracked second comes
\* first because its score is lower
C4_Witness ==
    /\ Reported
    /\ Len(consumables) = 2
    /\ Len(safe_foods) = 2
    /\ safe_foods[1].item = consumables[2].name
    /\ safe_foods[1].danger_score < safe_foods[2].danger_score

\* Sum of the intensities of the first n occurrences
RECURSIVE IntensitySum(_, _)
IntensitySum(occurrences, n) ==
    IF n = 0 THEN 0
    ELSE IntensitySum(occurrences, n - 1) + occurrences[n].intensity

\* score is sum / times rounded to hundredths, and 0 when sum is 0
IsRoundedQuotient(score, sum, times) ==
    /\ 2 * (100 * sum - score * times) <= times
    /\ 2 * (score * times - 100 * sum) <= times
    /\ sum = 0 => score = 0

\* C5: the danger score of every consumable is the sum of the intensities of
\* its occurrences divided by times_consumed, rounded to 2 decimals, and 0
\* when the sum is 0; the report carries that score.
C5_DangerScoreIsSumOverTimesConsumed ==
    /\ \A k \in 1..Len(consumables) :
        IsRoundedQuotient(
            total_danger_score(consumables[k]),
            IntensitySum(consumables[k].symptom_occurrences,
                         Len(consumables[k].symptom_occurrences)),
            consumables[k].times_consumed)
    /\ Reported =>
        \A n \in 1..Len(safe_foods) : \A k \in 1..Len(consumables) :
            safe_foods[n].item = consumables[k].name =>
                IsRoundedQuotient(
                    safe_foods[n].danger_score,
                    IntensitySum(consumables[k].symptom_occurrences,
                                 Len(consumables[k].symptom_occurrences)),
                    consumables[k].times_consumed)

\* C5 witness: one symptom of intensity 6, then a second consumption: the
\* score is 3.0
C5_Witness ==
    \E k \in 1..Len(consumables) :
        /\ consumables[k].times_consumed = 2
        /\ Len(consumables[k].symptom_occurrences) = 1
        /\ consumables[k].symptom_occurrences[1].intensity = 6
        /\ consumables[k].symptom_occurrences[1].date
             < consumables[k].last_consumed
        /\ total_danger_score(consumables[k]) = 300

\* The step changed the tracker: a consumable was created or consumed again
TrackerUpdated ==
    \/ Len(consumables') > Len(consumables)
    \/ \E k \in 1..Len(consumables) :
          consumables'[k].times_consumed # consumables[k].times_consumed

\* The step recorded a symptom occurrence
OccurrenceRecorded ==
    \E k \in 1..Len(consumables') : Len(NewOccurrences(k)) > 0

\* C6: no row both updates the consumable tracker and records symptom
\* occurrences, whatever the configured list of consumables contains.
C6_RowIsConsumptionOrSymptom ==
    [][~(TrackerUpdated /\ OccurrenceRecorded)]_vars

\* Number of fields of the row behind the category column
RestLen(row) == Len(row) - (CATEGORIZATION_COLUMN + 1)

\* C7: every Symptom row with an odd number of fields behind the category
\* column ends the run with an error, in every state of the tracker.
C7_OddSymptomRowFails ==
    [][(RowStep /\ handled_as_symptom(config, current_row')
                 /\ RestLen(current_row') % 2 = 1) =>
          pc' = "error"]_vars

\* The text is " Intensity: " followed by an integer
WellFormedIntensity(text) ==
    /\ Len(text) > Len(IntensityPrefix)
    /\ SubSeq(text, 1, Len(IntensityPrefix)) = IntensityPrefix
    /\ \A i \in (Len(IntensityPrefix) + 1)..Len(text) : text[i] \in Digits

\* The Symptom row has a surviving name whose intensity text is malformed
HasMalformedIntensity(cfg, row) ==
    \E p \in 1..(RestLen(row) \div 2) :
        /\ Survives(cfg, clean_data(row[PairColumn(p)]))
        /\ ~WellFormedIntensity(row[PairColumn(p) + 1])

\* C8: every Symptom row with a surviving symptom name whose intensity text
\* is not " Intensity: " and an integer ends the run with an error, in every
\* state of the tracker.
C8_MalformedIntensityFails ==
    [][(RowStep /\ handled_as_symptom(config, current_row')
                 /\ HasMalformedIntensity(config, current_row')) =>
          pc' = "error"]_vars

\* C9: once a row has failed, the run stays in the error state: no report is
\* calculated, nothing is printed and nothing is written, however many rows
\* were processed before.
C9_NoReportAfterFailedImport ==
    error # "none" =>
        /\ pc = "error"
        /\ safe_foods = <<>>
        /\ printed = {}
        /\ written = <<>>

\* C9 witness: the third row failed after two rows that filled the tracker
C9_Witness ==
    /\ pc = "error"
    /\ rows_read = 3
    /\ Len(consumables) > 0
    /\ \E k \in 1..Len(consumables) : consumables[k].symptom_occurrences # <<>>

\* The names of all symptoms of the rows of the model
SymptomNames == {Headache, Nausea} \cup DOMAIN symptoms

\* C10: a warning (consumable, symptom, score) is printed exactly for the
\* consumables of the report and their symptoms whose average, the sum of the
\* symptom's intensities over times_consumed rounded to 2 decimals, is
\* strictly greater than the warning threshold; nothing is printed before.
\* (The rounded average exceeds the integer threshold w exactly if
\* sum / times > w + 0.005, a tie at w + 0.005 being rounded down to w.)
C10_WarningIffAverageAboveThreshold ==
    /\ ~Reported => printed = {}
    /\ Reported =>
        /\ \A w \in printed :
              \E k \in 1..Len(consumables) :
                  /\ w[1] = consumables[k].name
                  /\ \E x \in consumables[k].associated_symptoms :
                         w[2] = x.name
        /\ \A k \in 1..Len(consumables) :
              \A s \in SymptomNames :
                 LET c    == consumables[k]
                     occs == SelectSeq(c.symptom_occurrences,
                                       LAMBDA o : o.symptom.name = s)
                     sum  == IntensitySum(occs, Len(occs))
                     ws   == { w \in printed : w[1] = c.name /\ w[2] = s }
                 IN  /\ Cardinality(ws) <= 1
                     /\ \A w \in ws : IsRoundedQuotient(w[3], sum, c.times_consumed)
                     /\ (ws # {}) <=>
                          /\ c.times_consumed >= config.min_times_consumed
                          /\ occs # <<>>
                          /\ 200 * sum
                               > (200 * config.symptom_warning_score + 1)
                                   * c.times_consumed

\* C10 witness: one symptom of a reported consumable is above the threshold
\* and is warned about, another one is below it and is not
C10_Witness ==
    /\ Reported
    /\ \E n \in 1..Len(safe_foods) :
        \E s, t \in DOMAIN safe_foods[n].symptoms :
            /\ safe_foods[n].symptoms[s] > 100 * config.symptom_warning_score
            /\ <<safe_foods[n].item, s, safe_foods[n].symptoms[s]>> \in printed
            /\ safe_foods[n].symptoms[t] > 0
            /\ safe_foods[n].symptoms[t] <= 100 * config.symptom_warning_score
            /\ \A w \in printed : ~(w[1] = safe_foods[n].item /\ w[2] = t)

\* times_consumed of the name before the step (0: not tracked)
OldTimesConsumed(name) ==
    IF \E k \in 1..Len(consumables) : consumables[k].name = name
    THEN consumables[CHOOSE k \in 1..Len(consumables) :
                         consumables[k].name = name].times_consumed
    ELSE 0

\* The step handled the row current_row' as a Consumption
ConsumptionStep == RowStep /\ handled_as_consumption(config, current_row')

\* The step handled the row current_row' as a Symptom event
SymptomStep == RowStep /\ handled_as_symptom(config, current_row')

\* The consumption count of every consumable listed in the row grew by
\* Growth(name)
TimesConsumedGrewBy(Growth(_)) ==
    \A k \in 1..Len(consumables') :
        consumables'[k].name \in ItemNames(current_row') =>
            consumables'[k].times_consumed
              = OldTimesConsumed(consumables'[k].name)
                  + Growth(consumables'[k].name)

\* C11: times_consumed counts the Consumption rows that list the name: every
\* Consumption row adds one to each name it lists, also to a name it lists
\* more than once.
C11_TimesConsumedCountsRows ==
    [][ConsumptionStep => TimesConsumedGrewBy(LAMBDA name : 1)]_vars

\* C11 amended: times_consumed counts the item fields: every Consumption row
\* adds, to each name it lists, the number of its non-bracketed fields with
\* that name, so a row that lists a name twice counts as two consumptions.
C11_TimesConsumedCountsFieldsOfRow ==
    [][ConsumptionStep =>
          TimesConsumedGrewBy(
              LAMBDA name : Cardinality(ItemFields(current_row', name)))]_vars

\* C11 witness: the first row listed Tea twice and Tea counts two consumptions
C11_Witness ==
    /\ rows_read = 1
    /\ Cardinality(ItemFields(current_row, Tea)) = 2
    /\ \E k \in 1..Len(consumables) :
        consumables[k].name = Tea /\ consumables[k].times_consumed = 2

\* C12: last_consumed of a consumable is the instant of the last processed
\* Consumption row that lists it: such a row sets it to the row's instant,
\* every other step keeps it; with rows in chronological order it never
\* decreases, so it is the latest instant of all rows that list the name.
C12_LastConsumedIsMostRecentConsumption ==
    [][/\ \A k \in 1..Len(consumables') :
            IF ConsumptionStep
               /\ consumables'[k].name \in ItemNames(current_row')
            THEN consumables'[k].last_consumed = row_at(current_row')
            ELSE /\ k <= Len(consumables)
                 /\ consumables'[k].last_consumed = consumables[k].last_consumed
       /\ chronological' =>
            \A k \in 1..Len(consumables) :
                consumables'[k].last_consumed >= consumables[k].last_consumed]_vars

\* C12 witness: Tea was consumed at 08:00 and again at 09:30
C12_Witness ==
    /\ chronological
    /\ rows_read = 2
    /\ \E k \in 1..Len(consumables) :
        /\ consumables[k].name = Tea
        /\ consumables[k].times_consumed = 2
        /\ consumables[k].last_consumed = 9 * 60 + 30
        /\ row_at(current_row) = 9 * 60 + 30

\* Letter case of the chunks of the model: the chunk in lower case
LowerCase(chunk) ==
    CASE chunk = "Tea" -> "tea"
      [] chunk = "Headache" -> "headache"
      [] chunk = "Nausea" -> "nausea"
      [] chunk = "Intensity:" -> "intensity:"
      [] chunk = "Duration" -> "duration"
      [] OTHER -> chunk

\* A name without its surrounding spaces and quotes, in lower case
Normalized(name) ==
    [ i \in 1..Len(clean_data(name)) |-> LowerCase(clean_data(name)[i]) ]

\* C13: the tracker never holds two consumables whose names are equal after
\* normalization of letter case and of surrounding spaces and quotes.
C13_NormalizedNamesAreUnique ==
    \A k, j \in 1..Len(consumables) :
        Normalized(consumables[k].name) = Normalized(consumables[j].name)
            => k = j

\* C13 amended: consumables are keyed by the cleaned item text (the spaces at
\* the two ends stripped, then the quote characters removed) with its letter
\* case kept: the tracker never holds two consumables of the same name, and
\* every non-bracketed field of a Consumption row resolves to the one
\* consumable whose name is the field's cleaned text.
C13_CleanedNamesAreUnique ==
    /\ \A k, j \in 1..Len(consumables) :
          consumables[k].name = consumables[j].name => k = j
    /\ (rows_read > 0 /\ handled_as_consumption(config, current_row)) =>
          \A i \in RestColumns(current_row) :
              ~Bracketed(clean_data(current_row[i])) =>
                  Cardinality({ k \in 1..Len(consumables) :
                                  consumables[k].name
                                    = clean_data(current_row[i]) }) = 1

\* C13 witness: the quoted cell "Tea" with a space in front went to the
\* consumable Tea, consumed before, and tea is another consumable
C13_Witness ==
    /\ rows_read = 3
    /\ handled_as_consumption(config, current_row)
    /\ current_row[CATEGORIZATION_COLUMN + 2] = <<" ", "\"", "Tea", "\"">>
    /\ Len(consumables) = 2
    /\ \E k, j \in 1..Len(consumables) :
        /\ consumables[k].name = Tea
        /\ consumables[k].times_consumed = 2
        /\ consumables[j].name = tea

\* The occurrences of the symptom called name
OccurrencesNamed(occurrences, name) ==
    SelectSeq(occurrences, LAMBDA o : o.symptom.name = name)

\* C14: for every consumable of the report, the keys of 'symptoms' are the
\* names of the symptoms with an occurrence in its list, and each value is
\* the sum of the intensities of that symptom's occurrences divided by
\* times_consumed, rounded to 2 decimals, 0 when the sum is 0.
C14_SymptomsMapHoldsAverages ==
    Reported =>
        \A n \in 1..Len(safe_foods) : \A k \in 1..Len(consumables) :
            safe_foods[n].item = consumables[k].name =>
                LET occs == consumables[k].symptom_occurrences
                IN  /\ DOMAIN safe_foods[n].symptoms
                         = { occs[i].symptom.name : i \in 1..Len(occs) }
                    /\ \A name \in DOMAIN safe_foods[n].symptoms :
                          IsRoundedQuotient(
                              safe_foods[n].symptoms[name],
                              IntensitySum(OccurrencesNamed(occs, name),
                                           Len(OccurrencesNamed(occs, name))),
                              consumables[k].times_consumed)

\* C14 witness: a consumable consumed twice with Headache 6 and Nausea 0 is
\* reported with the averages 3.0 and 0
C14_Witness ==
    /\ Reported
    /\ \E n \in 1..Len(safe_foods) :
        /\ DOMAIN safe_foods[n].symptoms = {Headache, Nausea}
        /\ safe_foods[n].symptoms[Headache] = 300
        /\ safe_foods[n].symptoms[Nausea] = 0

\* The name begins with "Duration"
IsDuration(name) == Len(name) > 0 /\ Head(name) = "Duration"

\* The cleaned names in the name columns of a Symptom row
NamesOfRow(row) ==
    { clean_data(row[PairColumn(p)]) :
        p \in 1..((Len(row) - CATEGORIZATION_COLUMN) \div 2) }

\* C15: every occurrence attached has a name that does not begin with
\* "Duration" and, when the allow-list is not empty, is in the allow-list;
\* when the allow-list is empty, a Symptom row processed without an error
\* attaches every name of the row that is no Duration to every consumable
\* inside the window.
C15_OnlyAllowedSymptomsAreAttached ==
    [][/\ \A k \in 1..Len(consumables') :
            \A i \in 1..Len(NewOccurrences(k)) :
               LET name == NewOccurrences(k)[i].symptom.name
               IN  /\ ~IsDuration(name)
                   /\ config.symptoms # <<>> =>
                        \E n \in 1..Len(config.symptoms) :
                            config.symptoms[n] = name
       /\ (SymptomStep /\ pc' = "import_file" /\ config.symptoms = <<>>) =>
            \A k \in 1..Len(consumables') :
                row_at(current_row') - consumables'[k].last_consumed
                    < config.symptom_onset_hours =>
                  { NewOccurrences(k)[i].symptom.name :
                      i \in 1..Len(NewOccurrences(k)) }
                    = { name \in NamesOfRow(current_row') : ~IsDuration(name) }
      ]_vars

\* C15 witness: the allow-list holds Headache only; the row with Headache
\* and Nausea left one Headache occurrence and Nausea is not registered
C15_Witness ==
    /\ config.symptoms = <<Headache>>
    /\ pc = "import_file"
    /\ handled_as_symptom(config, current_row)
    /\ NamesOfRow(current_row) = {Headache, Nausea}
    /\ DOMAIN symptoms = {Headache}
    /\ \E k \in 1..Len(consumables) :
        /\ Len(consumables[k].symptom_occurrences) = 1
        /\ consumables[k].symptom_occurrences[1].date = row_at(current_row)

\* C16: in every step each consumable stays in the tracker and its
\* occurrence list only grows at its end: the list before the step is a
\* prefix of the list after it, so no occurrence is removed or changed, also
\* not by a later consumption of the item.
C16_OccurrencesAreOnlyAppended ==
    [][\A k \in 1..Len(consumables) :
          /\ k <= Len(consumables')
          /\ consumables'[k].name = consumables[k].name
          /\ Len(consumables'[k].symptom_occurrences)
               >= Len(consumables[k].symptom_occurrences)
          /\ SubSeq(consumables'[k].symptom_occurrences, 1,
                    Len(consumables[k].symptom_occurrences))
               = consumables[k].symptom_occurrences]_vars

\* C16 witness: the occurrence of 08:00 is still there after the item was
\* consumed again at 09:30
C16_Witness ==
    /\ handled_as_consumption(config, current_row)
    /\ rows_read = 3
    /\ \E k \in 1..Len(consumables) :
        /\ consumables[k].last_consumed = row_at(current_row)
        /\ consumables[k].times_consumed >= 2
        /\ consumables[k].symptom_occurrences # <<>>
        /\ consumables[k].symptom_occurrences[1].date
             < consumables[k].last_consumed

\* Position of the consumable called name in the tracker: the order in which
\* the consumables were first met in the diary
TrackerPosition(name) ==
    CHOOSE k \in 1..Len(consumables) : consumables[k].name = name

\* C17: entries of the report with equal danger_score are in the order in
\* which their consumables were first met in the diary.
C17_TiesKeepEncounterOrder ==
    Reported =>
        \A n, m \in 1..Len(safe_foods) :
            (n < m /\ safe_foods[n].danger_score = safe_foods[m].danger_score)
                => TrackerPosition(safe_foods[n].item)
                     < TrackerPosition(safe_foods[m].item)

\* C17 witness: Tea and tea are reported with the same score above 0, the
\* one met first in front
C17_Witness ==
    /\ Reported
    /\ config.consumables = <<Dinner>>
    /\ Len(safe_foods) = 2
    /\ safe_foods[1].danger_score > 0
    /\ safe_foods[1].danger_score = safe_foods[2].danger_score
    /\ safe_foods[1].item = consumables[1].name
    /\ safe_foods[2].item = consumables[2].name

\* Some consumption of name, the latest or an earlier one, lies inside the
\* window that ends at instant at
ConsumedInsideWindow(name, at, window) ==
    /\ name \in DOMAIN consumed_at'
    /\ \E consumed \in consumed_at'[name] :
           0 <= at - consumed /\ at - consumed < window

\* C18: as long as the rows come in chronological order, a Symptom row at T
\* that is processed without an error gives its surviving pairs, once each,
\* to exactly the consumables with some consumption, the latest or an earlier
\* one, at L' with 0 <= T - L' < onset_window: a tracker that keeps the whole
\* consumption history builds the same occurrence lists.
C18_LatestOnlyLosesNoAssociation ==
    [][(SymptomStep /\ pc' = "import_file" /\ chronological') =>
          /\ { consumables'[k].name : k \in 1..Len(consumables') }
                 = DOMAIN consumed_at'
          /\ \A k \in 1..Len(consumables') :
                 NewOccurrences(k) =
                     IF ConsumedInsideWindow(consumables'[k].name,
                                             row_at(current_row'),
                                             config.symptom_onset_hours)
                     THEN SurvivingOccurrences(config, current_row')
                     ELSE <<>>]_vars

\* C18 witness: rows in chronological order, Tea consumed at 08:00 and at
\* 09:30, a symptom of 12:00 attached to it: the earlier consumption is
\* outside the window of 4 hours, the latest one inside
C18_Witness ==
    /\ chronological
    /\ pc = "import_file"
    /\ Tea \in DOMAIN consumed_at
    /\ consumed_at[Tea] = {480, 570}
    /\ \E k \in 1..Len(consumables) :
        /\ consumables[k].name = Tea
        /\ consumables[k].symptom_occurrences # <<>>
        /\ consumables[k].symptom_occurrences[1].date = 720

\* The step left the occurrences and the associated symptoms of every
\* consumable, and the symptom registry, as they were
SymptomSideUnchanged ==
    /\ symptoms' = symptoms
    /\ \A k \in 1..Len(consumables') :
        /\ consumables'[k].symptom_occurrences
             = (IF k <= Len(consumables)
                THEN consumables[k].symptom_occurrences ELSE <<>>)
        /\ consumables'[k].associated_symptoms
             = (IF k <= Len(consumables)
                THEN consumables[k].associated_symptoms ELSE {})

\* The step left last_consumed and times_consumed of the consumables that
\* satisfy Kept as they were
ConsumptionSideUnchanged(Kept(_)) ==
    \A k \in 1..Len(consumables) :
        Kept(consumables[k].name) =>
            /\ k <= Len(consumables')
            /\ consumables'[k].name = consumables[k].name
            /\ consumables'[k].last_consumed = consumables[k].last_consumed
            /\ consumables'[k].times_consumed = consumables[k].times_consumed

\* The frame of a Consumption row
ConsumptionFrame ==
    /\ SymptomSideUnchanged
    /\ ConsumptionSideUnchanged(LAMBDA name : name \notin ItemNames(current_row'))

\* The frame of a Symptom row
SymptomFrame ==
    /\ Len(consumables') = Len(consumables)
    /\ ConsumptionSideUnchanged(LAMBDA name : TRUE)

\* The frame of a row of another category
IgnoredFrame ==
    /\ consumables' = consumables
    /\ symptoms' = symptoms

\* The step took a row with a timestamp whose category is neither
IgnoredStep ==
    /\ RowStep
    /\ row_parses(current_row')
    /\ ~handled_as_consumption(config, current_row')
    /\ ~handled_as_symptom(config, current_row')

\* C19: a Consumption row leaves the occurrences, the associated symptoms
\* and the symptom registry unchanged, and last_consumed and times_consumed of
\* every consumable it does not list; a Symptom row creates no consumable and
\* leaves every last_consumed and times_consumed unchanged; an Ignored row
\* changes nothing.
C19_HandlersKeepTheirFrames ==
    [][/\ ConsumptionStep => ConsumptionFrame
       /\ SymptomStep => SymptomFrame
       /\ IgnoredStep => IgnoredFrame]_vars

\* What the code guarantees: the frames hold for every row that only one of
\* the two handlers takes.
FramesOfRowsHandledOnce ==
    [][/\ (ConsumptionStep /\ ~SymptomStep) => ConsumptionFrame
       /\ (SymptomStep /\ ~ConsumptionStep) => SymptomFrame
       /\ IgnoredStep => IgnoredFrame]_vars

\* The Symptom objects the occurrences of a list refer to
SymptomsOf(occurrences) ==
    { occurrences[i].symptom : i \in 1..Len(occurrences) }

\* The names of the symptoms attached to some consumable
AttachedNames ==
    UNION { { o.name : o \in SymptomsOf(consumables[k].symptom_occurrences) } :
              k \in 1..Len(consumables) }

\* C20: in every state, for every consumable the set of associated symptoms
\* is the set of the symptoms its occurrences refer to, each of these is the
\* one object the registry holds for its name, and the registry holds exactly
\* the names attached to some consumable: a symptom reported while no
\* consumable is inside the window is not registered.
C20_RegistryAndSetsFollowOccurrences ==
    /\ \A k \in 1..Len(consumables) :
        /\ consumables[k].associated_symptoms
             = SymptomsOf(consumables[k].symptom_occurrences)
        /\ \A symptom \in SymptomsOf(consumables[k].symptom_occurrences) :
            /\ symptom.name \in DOMAIN symptoms
            /\ symptoms[symptom.name] = symptom
    /\ DOMAIN symptoms = AttachedNames

\* C20 witness: Headache is attached and registered; the row taken last
\* reported Nausea, which no filter drops, while no consumable was inside the
\* window, and Nausea is not registered
C20_Witness ==
    /\ pc = "import_file"
    /\ config.symptoms = <<>>
    /\ handled_as_symptom(config, current_row)
    /\ Nausea \in NamesOfRow(current_row)
    /\ Nausea \notin DOMAIN symptoms
    /\ Headache \in DOMAIN symptoms
    /\ \E k \in 1..Len(consumables) :
        /\ consumables[k].symptom_occurrences # <<>>
        /\ consumables[k].associated_symptoms = {symptoms[Headache]}

=============================================================================
